---- MODULE Spec2Model ----
(***************************************************************************)
(* A model of tile-xenium (src/src/lib.rs): the pipeline run, the tile     *)
(* writer write_tile with its recursive expansion, the bounds calculator   *)
(* get_limits, the control-probe filter filter_transcripts and the         *)
(* cell-id decoder decode_cell_id.                                         *)
(*                                                                         *)
(* Coordinates, widths and overlaps are f64 in the program.  The model     *)
(* represents a value v by the integer v * Unit, so that floor and ceil    *)
(* (get_limits) are real roundings.  Strings are sequences of one-character*)
(* strings; the decoder works on their code points.                        *)
(***************************************************************************)
EXTENDS Integers, Sequences, FiniteSets, TLC

VARIABLES
    args,         \* Args (min_qv, never read, and out_dir left out)
    transcripts,  \* the table read from in_file (rows in file order)
    df,           \* the collected frame the tiles are cut from
    limits,       \* (x_min, x_max, y_min, y_max) of get_limits
    x, y,         \* the cursors of run's two loops
    request,      \* start_x, end_x, start_y, end_y of the loop body
    tile,         \* the rectangle of the innermost write_tile call
    depth,        \* recursion depth of write_tile (expansions so far)
    files,        \* the tile files of out_dir: name (rectangle) and rows
    overwritten,  \* whether File::create truncated a tile file of this run
    manifest,     \* whether params.txt has been written
    result,       \* what run returned: "none", "ok", "err", "panic"
    pc,           \* where the run is
    cell_id,      \* decoder: the identifier handed to decode_cell_id
    decoded       \* decoder: its outcome

vars == <<args, transcripts, df, limits, x, y, request, tile, depth, files,
          overwritten, manifest, result, pc, cell_id, decoded>>

runVars == <<args, transcripts, df, limits, x, y, request, tile, depth, files,
             overwritten, manifest, result>>

decVars == <<cell_id, decoded>>

(***************************************************************************)
(* Bounds of the model.                                                    *)
(***************************************************************************)
\* steps per coordinate unit: 1.0 is Unit steps
Unit == 2
\* coordinates of the rows are 0 .. MaxCoord steps
MaxCoord == 2
\* the input table has at most MaxRows rows
MaxRows == 2
\* write_tile calls nested deeper than this leave the model
MaxDepth == 6

Widths == {1, 2}
Heights == {1, 2}
Overlaps == {-2, 0, 1}
MinimalTranscripts == {0, 1, 2}

(***************************************************************************)
(* Strings.                                                                *)
(***************************************************************************)
\* str::starts_with
StartsWith(s, p) ==
    /\ Len(s) >= Len(p)
    /\ SubSeq(s, 1, Len(p)) = p

\* str::ends_with
EndsWith(s, p) ==
    /\ Len(s) >= Len(p)
    /\ SubSeq(s, Len(s) - Len(p) + 1, Len(s)) = p

ExtParquet == <<".", "p", "a", "r", "q", "u", "e", "t">>
ExtCsv == <<".", "c", "s", "v">>

ParquetFile == <<"t">> \o ExtParquet
CsvFile == <<"t">> \o ExtCsv
TxtFile == <<"t", ".", "t", "x", "t">>

NegControlProbe == <<"N","e","g","C","o","n","t","r","o","l","P","r","o","b","e","_">>
Antisense == <<"a","n","t","i","s","e","n","s","e","_">>
NegControlCodeword == <<"N","e","g","C","o","n","t","r","o","l","C","o","d","e","w","o","r","d","_">>
Blank == <<"B","L","A","N","K","_">>
Gene == <<"G","e","n","e">>

(***************************************************************************)
(* Frames: a frame is a sequence of rows (records).                        *)
(***************************************************************************)
\* LazyFrame::filter keeps the rows satisfying its predicate, in their order:
\* SelectSeq.

\* filter_transcripts without its last filter
filter_transcripts_no_blank(t) ==
    LET f1 == SelectSeq(t, LAMBDA r : ~StartsWith(r.feature_name, NegControlProbe))
        f2 == SelectSeq(f1, LAMBDA r : ~StartsWith(r.feature_name, Antisense))
    IN  SelectSeq(f2, LAMBDA r : ~StartsWith(r.feature_name, NegControlCodeword))

\* the four chained filters of filter_transcripts
filter_transcripts(t) ==
    LET f1 == SelectSeq(t, LAMBDA r : ~StartsWith(r.feature_name, NegControlProbe))
        f2 == SelectSeq(f1, LAMBDA r : ~StartsWith(r.feature_name, Antisense))
        f3 == SelectSeq(f2, LAMBDA r : ~StartsWith(r.feature_name, NegControlCodeword))
    IN  SelectSeq(f3, LAMBDA r : ~StartsWith(r.feature_name, Blank))

get_row_count(t) == Len(t)

Floor(v) == (v \div Unit) * Unit
Ceil(v) == -Floor(-v)

SetMin(S) == CHOOSE m \in S : \A n \in S : m <= n
SetMax(S) == CHOOSE m \in S : \A n \in S : m >= n

\* get_limits of a non-empty frame
get_limits(d) ==
    LET xs == {d[i].x_location : i \in 1..Len(d)}
        ys == {d[i].y_location : i \in 1..Len(d)}
    IN  [x_min |-> Floor(SetMin(xs)), x_max |-> Ceil(SetMax(xs)),
         y_min |-> Floor(SetMin(ys)), y_max |-> Ceil(SetMax(ys))]

\* the four chained filters of write_tile: the closed rectangle
InTile(r, t) ==
    /\ r.x_location >= t.start_x
    /\ r.x_location <= t.end_x
    /\ r.y_location >= t.start_y
    /\ r.y_location <= t.end_y

TileRows(d, t) == SelectSeq(d, LAMBDA r : InTile(r, t))

\* an expansion that forgets to move the lower bounds
ExpandUpperOnly(t, increment) ==
    [start_x |-> t.start_x, end_x |-> t.end_x + increment,
     start_y |-> t.start_y, end_y |-> t.end_y + increment]

\* one more write_tile call: the rectangle grown by increment on all sides
Expand(t, increment) ==
    [start_x |-> t.start_x - increment, end_x |-> t.end_x + increment,
     start_y |-> t.start_y - increment, end_y |-> t.end_y + increment]

NoTile == [start_x |-> 0, end_x |-> 0, start_y |-> 0, end_y |-> 0]
NoLimits == [x_min |-> 0, x_max |-> 0, y_min |-> 0, y_max |-> 0]

(***************************************************************************)
(* The cell-id decoder.  A u32 is a record of two 16-bit halves, hi and lo *)
(* (its value is hi * 65536 + lo), so that the 32-bit overflow of the two  *)
(* parses is computed and not assumed.                                     *)
(***************************************************************************)
Half == 2^16

Digits == <<"0", "1", "2", "3", "4", "5", "6", "7", "8", "9">>
HexChars == Digits \o <<"A", "B", "C", "D", "E", "F">>

\* char as i32, for the characters of the model's identifiers
Code(c) ==
    CASE c = "+" -> 43
      [] c = "-" -> 45
      [] c \in {Digits[i] : i \in 1..10} -> 47 + (CHOOSE i \in 1..10 : Digits[i] = c)
      [] c = "A" -> 65
      [] c = "_" -> 95
      [] c = "a" -> 97
      [] c = "b" -> 98
      [] c = "f" -> 102
      [] c = "k" -> 107
      [] c = "p" -> 112
      [] c = "q" -> 113

IsDigit(c) == Code(c) >= 48 /\ Code(c) <= 57

U32(hi, lo) == [hi |-> hi, lo |-> lo]
Value(v) == [kind |-> "value", value |-> v]
Panic == [kind |-> "panic", value |-> U32(0, 0)]
Failure == [kind |-> "err", value |-> U32(0, 0)]

\* one step of from_str_radix: acc * radix + d, checked for 32-bit overflow
MulAdd(acc, radix, d) ==
    LET lo == acc.value.lo * radix + d
        hi == acc.value.hi * radix + (lo \div Half)
    IN  IF acc.kind # "value" THEN acc
        ELSE IF hi >= Half THEN Failure
        ELSE Value(U32(hi, lo % Half))

\* the digits of from_str_radix, left to right; every character must be a
\* digit of the radix
RECURSIVE ParseDigits(_, _, _)
ParseDigits(s, radix, acc) ==
    IF s = <<>> \/ acc.kind # "value" THEN acc
    ELSE LET c == Head(s)
             d == IF \E i \in 1..radix : HexChars[i] = c
                  THEN (CHOOSE i \in 1..radix : HexChars[i] = c) - 1
                  ELSE -1
         IN  IF d < 0 THEN Failure
             ELSE ParseDigits(Tail(s), radix, MulAdd(acc, radix, d))

\* u32::from_str_radix: an optional plus sign, then at least one digit
from_str_radix(s, radix) ==
    LET body == IF s # <<>> /\ Head(s) = "+" THEN Tail(s) ELSE s
    IN  IF body = <<>> THEN Failure
        ELSE ParseDigits(body, radix, Value(U32(0, 0)))

\* str::parse::<u32>
parse_u32(s) == from_str_radix(s, 10)

\* the decimal digits of usize::MAX (64 bits)
UsizeMax ==
    <<"1","8","4","4","6","7","4","4","0","7","3","7","0","9","5","5","1","6","1","5">>

RECURSIVE StripZeros(_)
StripZeros(s) ==
    IF s # <<>> /\ Head(s) = "0" THEN StripZeros(Tail(s)) ELSE s

\* a <= b for digit strings of the same length
RECURSIVE DigitsLeq(_, _)
DigitsLeq(a, b) ==
    IF a = <<>> THEN TRUE
    ELSE IF Code(Head(a)) # Code(Head(b)) THEN Code(Head(a)) < Code(Head(b))
    ELSE DigitsLeq(Tail(a), Tail(b))

\* whether str::parse::<usize> succeeds (its value is discarded, line 290)
parse_usize_ok(s) ==
    LET body == IF s # <<>> /\ Head(s) = "+" THEN Tail(s) ELSE s
        sig == StripZeros(body)
    IN  /\ body # <<>>
        /\ \A i \in 1..Len(body) : IsDigit(body[i])
        /\ \/ Len(sig) < Len(UsizeMax)
           \/ Len(sig) = Len(UsizeMax) /\ DigitsLeq(sig, UsizeMax)

\* str::split("-"): the pieces between the dashes
RECURSIVE Split(_, _)
Split(s, cur) ==
    IF s = <<>> THEN <<cur>>
    ELSE IF Head(s) = "-" THEN <<cur>> \o Split(Tail(s), <<>>)
    ELSE Split(Tail(s), Append(cur, Head(s)))

\* the digits taken in reverse order
shifted_hex_reversed(shifted_hex_digits) ==
    [i \in 1..Len(shifted_hex_digits) |->
        Code(shifted_hex_digits[Len(shifted_hex_digits) + 1 - i]) - Code("a")]

\* shifted_hex_to_hex_array: each character minus the code of a, as i32
shifted_hex_to_hex_array(shifted_hex_digits) ==
    [i \in 1..Len(shifted_hex_digits) |-> Code(shifted_hex_digits[i]) - Code("a")]

\* the hexadecimal digits of n >= 0, most significant first, no leading zero
RECURSIVE HexOf(_)
HexOf(n) ==
    IF n < 16 THEN <<HexChars[n + 1]>>
    ELSE HexOf(n \div 16) \o <<HexChars[(n % 16) + 1]>>

\* format!("{:X}", x) of an i32: a negative x prints its 32-bit complement,
\* eight digits
FormatX(n) ==
    IF n >= 0 THEN HexOf(n)
    ELSE <<"F", "F", "F", "F">> \o HexOf(Half + n)

RECURSIVE Concat(_)
Concat(ss) ==
    IF ss = <<>> THEN <<>> ELSE Head(ss) \o Concat(Tail(ss))

\* convert_hex_array_to_int: the digits formatted and joined, parsed in base
\* 16, the parse unwrapped
convert_hex_array_to_int(hex_array) ==
    LET hex_string == Concat([i \in 1..Len(hex_array) |-> FormatX(hex_array[i])])
        parsed == from_str_radix(hex_string, 16)
    IN  IF parsed.kind = "value" THEN parsed ELSE Panic

\* decode_cell_id
decode_cell_id(id) ==
    LET numeric_id == parse_u32(id)
        parts == Split(id, <<>>)
    IN  IF numeric_id.kind = "value" THEN numeric_id
        ELSE IF Len(parts) < 2 THEN Panic
        ELSE IF ~parse_usize_ok(parts[2]) THEN Panic
        ELSE convert_hex_array_to_int(shifted_hex_to_hex_array(parts[1]))

(***************************************************************************)
(* The pipeline.                                                           *)
(***************************************************************************)
Unassigned == <<"U","N","A","S","S","I","G","N","E","D">>
Zero == <<"0">>

\* The rows of the input (the columns run reads).  Genes with a numeric cell
\* identifier lie anywhere.  A control probe, which the filter drops before any
\* coordinate is read, an unassigned gene, and a gene outside the nucleus whose
\* cell identifier does not decode lie at one place.
Rows ==
    [x_location : 0..MaxCoord, y_location : 0..MaxCoord, feature_name : {Gene},
     cell_id : {<<"7">>}, overlaps_nucleus : {1}]
    \cup [x_location : {0}, y_location : {0}, feature_name : {Blank \o <<"1">>},
          cell_id : {<<"7">>}, overlaps_nucleus : {1}]
    \cup [x_location : {0}, y_location : {0}, feature_name : {Gene},
          cell_id : {Unassigned}, overlaps_nucleus : {1}]
    \cup [x_location : {0}, y_location : {0}, feature_name : {Gene},
          cell_id : {<<"q">>}, overlaps_nucleus : {0}]

RECURSIVE SeqsUpTo(_, _)
SeqsUpTo(S, n) ==
    IF n = 0 THEN {<<>>}
    ELSE LET shorter == SeqsUpTo(S, n - 1)
         IN  shorter \cup {Append(s, e) : s \in {t \in shorter : Len(t) = n - 1}, e \in S}

\* the tables read from in_file
Tables == SeqsUpTo(Rows, MaxRows)

\* The configurations: every size and overlap for a .csv input, and one
\* geometry for a .parquet input under nucleus_only and for an input of
\* another extension.
ArgsSet ==
    [in_file : {CsvFile}, width : Widths, height : Heights,
     overlap : Overlaps, minimal_transcripts : MinimalTranscripts,
     nucleus_only : {FALSE}]
    \cup [in_file : {ParquetFile, TxtFile}, width : {2}, height : {2}, overlap : {0},
          minimal_transcripts : MinimalTranscripts, nucleus_only : {TRUE}]

NoArgs ==
    [in_file |-> <<>>, width |-> 0, height |-> 0, overlap |-> 0,
     minimal_transcripts |-> 0, nucleus_only |-> FALSE]

InitRun ==
    /\ args \in ArgsSet
    /\ transcripts \in Tables
    /\ df = <<>>
    /\ limits = NoLimits
    /\ x = 0
    /\ y = 0
    /\ request = NoTile
    /\ tile = NoTile
    /\ depth = 0
    /\ files = {}
    /\ overwritten = FALSE
    /\ manifest = FALSE
    /\ result = "none"
    /\ pc = "start"
    /\ cell_id = <<>>
    /\ decoded = [kind |-> "none", value |-> [hi |-> 0, lo |-> 0]]

\* run, lines 60-69: the two overlap checks
WidthCheck == args.width <= args.overlap
HeightCheck == args.width <= args.overlap

\* run, lines 60-82: the checks of the configuration and the input's format
Validate ==
    /\ pc = "start"
    /\ IF WidthCheck \/ HeightCheck
         \/ ~(EndsWith(args.in_file, ExtParquet) \/ EndsWith(args.in_file, ExtCsv))
       THEN /\ pc' = "exit"
            /\ result' = "err"
       ELSE /\ pc' = "filter"
            /\ result' = result
    /\ UNCHANGED <<args, transcripts, df, limits, x, y, request, tile, depth,
                   files, overwritten, manifest>>
    /\ UNCHANGED decVars

\* the row-count check of run, line 105
TooFew(total_transcripts) == total_transcripts < args.minimal_transcripts

\* run, lines 116-119: UNASSIGNED becomes "0"
unassigned_to_zero(t) ==
    [i \in 1..Len(t) |->
        IF t[i].cell_id = Unassigned THEN [t[i] EXCEPT !.cell_id = Zero] ELSE t[i]]

\* run, lines 122-127: with nucleus_only, a row outside the nucleus gets "0"
nucleus_only_to_zero(t) ==
    IF args.nucleus_only
    THEN [i \in 1..Len(t) |->
            IF t[i].overlaps_nucleus = 0 THEN [t[i] EXCEPT !.cell_id = Zero] ELSE t[i]]
    ELSE t

\* decode_cells: every cell_id decoded; a panic of decode_cell_id ends the run
decode_panics(t) == \E i \in 1..Len(t) : decode_cell_id(t[i].cell_id).kind = "panic"
decode_cells(t) ==
    [i \in 1..Len(t) |-> [t[i] EXCEPT !.cell_id = decode_cell_id(t[i].cell_id).value]]

\* run, lines 84-141: the filter, the row-count check, the cell identifiers
\* rewritten and decoded at collect, get_limits (which unwraps the minimum of an
\* empty column: a panic) and the cursors
Prepare ==
    /\ pc = "filter"
    /\ LET t == filter_transcripts(transcripts)
           u == nucleus_only_to_zero(unassigned_to_zero(t))
           d == decode_cells(u)
       IN  IF TooFew(get_row_count(t))
           THEN /\ pc' = "exit"
                /\ result' = "err"
                /\ UNCHANGED <<df, limits, x, y>>
           ELSE IF decode_panics(u)
           THEN /\ pc' = "exit"
                /\ result' = "panic"
                /\ UNCHANGED <<df, limits, x, y>>
           ELSE IF d = <<>>
           THEN /\ pc' = "exit"
                /\ result' = "panic"
                /\ df' = d
                /\ UNCHANGED <<limits, x, y>>
           ELSE /\ pc' = "outer"
                /\ result' = result
                /\ df' = d
                /\ limits' = get_limits(d)
                /\ x' = get_limits(d).x_min
                /\ y' = get_limits(d).y_min
    /\ UNCHANGED <<args, transcripts, request, tile, depth, files, overwritten, manifest>>
    /\ UNCHANGED decVars

\* run, line 142 and lines 170-175: the outer loop's test; past it, the manifest
OuterLoop ==
    /\ pc = "outer"
    /\ IF y <= limits.y_max
       THEN /\ pc' = "inner"
            /\ UNCHANGED <<manifest, result>>
       ELSE /\ pc' = "exit"
            /\ manifest' = TRUE
            /\ result' = "ok"
    /\ UNCHANGED <<args, transcripts, df, limits, x, y, request, tile, depth,
                   files, overwritten>>
    /\ UNCHANGED decVars

\* the strides of the two loops, lines 164 and 167
StrideX == args.width - args.overlap
StrideY == args.height - args.overlap

\* run, lines 143-161 and 166-167: the inner loop's test; the call of write_tile,
\* or the end of a row of tiles
InnerLoop ==
    /\ pc = "inner"
    /\ IF x <= limits.x_max
       THEN /\ request' = [start_x |-> x, end_x |-> x + args.width,
                           start_y |-> y, end_y |-> y + args.height]
            /\ tile' = request'
            /\ depth' = 0
            /\ pc' = "write_tile"
            /\ UNCHANGED <<x, y>>
       ELSE /\ x' = limits.x_min
            /\ y' = y + StrideY
            /\ pc' = "outer"
            /\ UNCHANGED <<request, tile, depth>>
    /\ UNCHANGED <<args, transcripts, df, limits, files, overwritten, manifest, result>>
    /\ UNCHANGED decVars

\* the test of line 198 off by one
NotEnoughOffByOne(count) == count + 1 < args.minimal_transcripts

\* write_tile, line 198
NotEnough(count) == count < args.minimal_transcripts

\* write_tile, lines 196-210: too few rows, the recursive call
WriteTileExpand ==
    /\ pc = "write_tile"
    /\ NotEnough(get_row_count(TileRows(df, tile)))
    /\ IF depth < MaxDepth
       THEN /\ tile' = Expand(tile, args.overlap)
            /\ depth' = depth + 1
            /\ pc' = pc
       ELSE /\ pc' = "beyond"
            /\ UNCHANGED <<tile, depth>>
    /\ UNCHANGED <<args, transcripts, df, limits, x, y, request, files,
                   overwritten, manifest, result>>
    /\ UNCHANGED decVars

\* the file write_tile creates, lines 213-219
TileFile(d, t) == [name |-> t, rows |-> TileRows(d, t)]

\* write_tile, lines 212-220, and run, line 164: the file is created (a file
\* of the same name is truncated), the rows written, the x cursor advanced
WriteTileCreate ==
    /\ pc = "write_tile"
    /\ ~NotEnough(get_row_count(TileRows(df, tile)))
    /\ files' = {f \in files : f.name # tile} \cup {TileFile(df, tile)}
    /\ overwritten' = (overwritten \/ \E f \in files : f.name = tile)
    /\ x' = x + StrideX
    /\ pc' = "inner"
    /\ UNCHANGED <<args, transcripts, df, limits, y, request, tile, depth,
                   manifest, result>>
    /\ UNCHANGED decVars

NextRun ==
    \/ Validate
    \/ Prepare
    \/ OuterLoop
    \/ InnerLoop
    \/ WriteTileExpand
    \/ WriteTileCreate

Spec == InitRun /\ [][NextRun]_vars

\* the steps of the partitioner
Partition ==
    \/ OuterLoop
    \/ InnerLoop
    \/ WriteTileExpand
    \/ WriteTileCreate

\* the program is sequential: a step of the partitioner that can be taken is
\* taken
FairSpec == Spec /\ WF_vars(Partition)

(***************************************************************************)
(* The identifiers the decoder is given on its own.                        *)
(***************************************************************************)
MaxIdLen == 4
MaxHexLen == 9

IdChars == {"1", "+", "-", "a", "b", "p", "q", "_"}
ShiftedChars == {"a", "b", "p"}

Examples ==
    { <<"f","f","k","p","b","a","b","a","-","1">>,
      <<"f","f","k","p","b","a","b","a","-","2">>,
      <<"0">>, <<"4","2">>, <<"0","0","7">>,
      <<"4","2","9","4","9","6","7","2","9","5">>,
      <<"4","2","9","4","9","6","7","2","9","6">>,
      <<"A","-","1">>,
      <<"b","-","1","8","4","4","6","7","4","4","0","7","3","7","0","9","5","5","1","6","1","5">>,
      <<"b","-","1","8","4","4","6","7","4","4","0","7","3","7","0","9","5","5","1","6","1","6">> }

CellIds ==
    SeqsUpTo(IdChars, MaxIdLen)
    \cup {s \o <<"-">> \o n : s \in SeqsUpTo(ShiftedChars, MaxHexLen), n \in {<<"1">>, <<"2">>}}
    \cup Examples

InitDecode ==
    /\ cell_id \in CellIds
    /\ decoded = [kind |-> "none", value |-> U32(0, 0)]
    /\ pc = "decode"
    /\ args = NoArgs
    /\ transcripts = <<>>
    /\ df = <<>>
    /\ limits = NoLimits
    /\ x = 0
    /\ y = 0
    /\ request = NoTile
    /\ tile = NoTile
    /\ depth = 0
    /\ files = {}
    /\ overwritten = FALSE
    /\ manifest = FALSE
    /\ result = "none"

\* decode_cells, line 272: the identifier of one row is decoded
DecodeCell ==
    /\ pc = "decode"
    /\ decoded' = decode_cell_id(cell_id)
    /\ pc' = "decoded"
    /\ UNCHANGED cell_id
    /\ UNCHANGED runVars

SpecDecode == InitDecode /\ [][DecodeCell]_vars

(***************************************************************************)
(* The control-probe filter on its own, on tables of two columns as in     *)
(* tests::check_filter_transcripts.                                        *)
(***************************************************************************)
MaxTableRows == 3

FeatureNames ==
    { NegControlProbe, Antisense \o <<"A">>, NegControlCodeword, Blank \o <<"1">>, Gene,
      SubSeq(NegControlProbe, 1, Len(NegControlProbe) - 1),
      <<"b","l","a","n","k","_">>,
      <<"x">> \o Blank,
      <<>> }

TableRows == [feature_name : FeatureNames, Other_col : BOOLEAN]

InitFilter ==
    /\ transcripts \in SeqsUpTo(TableRows, MaxTableRows)
    /\ df = <<>>
    /\ pc = "table"
    /\ args = NoArgs
    /\ limits = NoLimits
    /\ x = 0
    /\ y = 0
    /\ request = NoTile
    /\ tile = NoTile
    /\ depth = 0
    /\ files = {}
    /\ overwritten = FALSE
    /\ manifest = FALSE
    /\ result = "none"
    /\ cell_id = <<>>
    /\ decoded = [kind |-> "none", value |-> U32(0, 0)]

\* filter_transcripts(df).collect(), as in tests::check_filter_transcripts
FilterTable ==
    /\ pc = "table"
    /\ df' = filter_transcripts(transcripts)
    /\ pc' = "filtered"
    /\ UNCHANGED <<args, transcripts, limits, x, y, request, tile, depth, files,
                   overwritten, manifest, result>>
    /\ UNCHANGED decVars

SpecFilter == InitFilter /\ [][FilterTable]_vars

(***************************************************************************)
(* Reference notions the properties are stated with.  They are written     *)
(* from the meaning of the words (a closed rectangle, a reserved prefix, a  *)
(* positional value), not from the operators above.                        *)
(***************************************************************************)
ReservedPrefixes == {NegControlProbe, Antisense, NegControlCodeword, Blank}

IsControl(name) ==
    \E p \in ReservedPrefixes :
        /\ Len(name) >= Len(p)
        /\ \A i \in 1..Len(p) : name[i] = p[i]

RECURSIVE KeptRows(_)
KeptRows(t) ==
    IF t = <<>> THEN <<>>
    ELSE IF IsControl(Head(t).feature_name) THEN KeptRows(Tail(t))
    ELSE <<Head(t)>> \o KeptRows(Tail(t))

PostFilterCount ==
    Cardinality({i \in 1..Len(transcripts) : ~IsControl(transcripts[i].feature_name)})

Inside(r, t) ==
    /\ r.x_location \in t.start_x..t.end_x
    /\ r.y_location \in t.start_y..t.end_y

RECURSIVE RowsInside(_, _)
RowsInside(d, t) ==
    IF d = <<>> THEN <<>>
    ELSE IF Inside(Head(d), t) THEN <<Head(d)>> \o RowsInside(Tail(d), t)
    ELSE RowsInside(Tail(d), t)

CountInside(t) == Cardinality({i \in 1..Len(df) : Inside(df[i], t)})

\* the rectangle r expanded by k * o on all four sides
Grown(r, k, o) ==
    [start_x |-> r.start_x - k * o, end_x |-> r.end_x + k * o,
     start_y |-> r.start_y - k * o, end_y |-> r.end_y + k * o]

FileNames == {f.name : f \in files}

KnownExtension ==
    \E e \in {ExtParquet, ExtCsv} :
        /\ Len(args.in_file) >= Len(e)
        /\ \A i \in 1..Len(e) : args.in_file[Len(args.in_file) - Len(e) + i] = e[i]

(***************************************************************************)
(* Properties of the pipeline (Spec, FairSpec).                            *)
(***************************************************************************)

\* C1: a run whose tile width or tile height does not exceed the overlap, whose
\* input has neither extension, or whose filtered table has fewer rows than
\* minimal_transcripts writes no tile file and does not end in success.
C1_RejectedBeforeAnyTile ==
    ( \/ args.width <= args.overlap
      \/ args.height <= args.overlap
      \/ ~KnownExtension
      \/ PostFilterCount < args.minimal_transcripts )
    => /\ files = {}
       /\ result # "ok"

\* C2: every tile file holds exactly the rows of the dataset inside the closed
\* rectangle of its name, and at least minimal_transcripts of them.
C2_TileHasMinimalRows ==
    \A f \in files :
        /\ f.rows = RowsInside(df, f.name)
        /\ Len(f.rows) >= args.minimal_transcripts

C2_Witness ==
    \E f \in files :
        /\ args.minimal_transcripts >= 1
        /\ Len(f.rows) >= 1
        /\ Len(f.rows) < Len(df)

\* C3: the rectangle write_tile writes is the requested one expanded by
\* k * overlap on every side, k being the least number of expansions at which
\* the row count reaches the threshold; it contains the requested rectangle and
\* is at least as wide and as high as configured.
C3_WrittenIsLeastExpansion ==
    (pc \in {"inner", "outer", "exit"} /\ files # {}) =>
        /\ tile \in FileNames
        /\ tile = Grown(request, depth, args.overlap)
        /\ CountInside(tile) >= args.minimal_transcripts
        /\ \A j \in 0..(depth - 1) :
              CountInside(Grown(request, j, args.overlap)) < args.minimal_transcripts
        /\ tile.start_x <= request.start_x /\ request.end_x <= tile.end_x
        /\ tile.start_y <= request.start_y /\ request.end_y <= tile.end_y
        /\ tile.end_x - tile.start_x >= args.width
        /\ tile.end_y - tile.start_y >= args.height

C3_Witness ==
    /\ pc = "inner"
    /\ depth >= 2
    /\ tile \in FileNames
    /\ tile # request

\* C7: a run that has passed the checks and entered the partitioner ends its
\* loops and writes the manifest (or leaves the bound on the recursion depth).
C7_PartitionerTerminates == (pc = "outer") ~> (manifest \/ pc = "beyond")

\* C8: a run whose filtered table is empty ends with the data-sufficiency
\* error, for any minimal_transcripts; it never reaches get_limits.
C8_EmptyDatasetRejected ==
    (PostFilterCount = 0 /\ pc = "exit") => result = "err"

\* C9: after a successful run every row of the dataset lies in the closed
\* rectangle of at least one written tile.
C9_TilesCoverDataset ==
    result = "ok" =>
        \A i \in 1..Len(df) : \E f \in files : Inside(df[i], f.name)

\* C10: no tile file of a run is written a second time by a later tile request
\* of the same run: as many files as grid positions visited.
C10_NoTileOverwritten == ~overwritten

(***************************************************************************)
(* Properties of the decoder (SpecDecode).                                 *)
(***************************************************************************)
Alphabet16 ==
    <<"a","b","c","d","e","f","g","h","i","j","k","l","m","n","o","p">>

HasDash(s) == \E i \in 1..Len(s) : s[i] = "-"
FirstDash(s) == CHOOSE i \in 1..Len(s) : s[i] = "-" /\ \A j \in 1..(i - 1) : s[j] # "-"
BeforeDash(s) == SubSeq(s, 1, FirstDash(s) - 1)
AfterDash(s) == SubSeq(s, FirstDash(s) + 1, Len(s))

IsDigitChar(c) == \E i \in 1..10 : Digits[i] = c
Unsigned(s) ==
    LET body == IF s # <<>> /\ s[1] = "+" THEN SubSeq(s, 2, Len(s)) ELSE s
    IN  body # <<>> /\ \A i \in 1..Len(body) : IsDigitChar(body[i])

IsShifted(s) == \A i \in 1..Len(s) : \E n \in 1..16 : Alphabet16[n] = s[i]
Nibble(c) == (CHOOSE n \in 1..16 : Alphabet16[n] = c) - 1

RECURSIVE StripLeading(_, _)
StripLeading(s, c) ==
    IF s # <<>> /\ s[1] = c THEN StripLeading(SubSeq(s, 2, Len(s)), c) ELSE s

\* the value of at most four nibbles, most significant first
RECURSIVE NibblesValue(_)
NibblesValue(s) ==
    IF s = <<>> THEN 0 ELSE 16 * NibblesValue(SubSeq(s, 1, Len(s) - 1)) + Nibble(s[Len(s)])

FitsHex(s) == Len(StripLeading(s, "a")) <= 8

\* the base-16 value of a nibble sequence that fits 32 bits, as two halves
HexValue(s) ==
    LET sig == StripLeading(s, "a")
        n == Len(sig)
    IN  IF n <= 4 THEN U32(0, NibblesValue(sig))
        ELSE U32(NibblesValue(SubSeq(sig, 1, n - 4)), NibblesValue(SubSeq(sig, n - 3, n)))

\* the decimal digits of a u32, no leading zero
RECURSIVE ToDecimal(_)
ToDecimal(v) ==
    LET t == (v.hi % 10) * Half + v.lo
        q == U32(v.hi \div 10, t \div 10)
    IN  IF q = U32(0, 0) THEN <<Digits[(t % 10) + 1]>>
        ELSE ToDecimal(q) \o <<Digits[(t % 10) + 1]>>

DecimalBody(s) == IF s # <<>> /\ s[1] = "+" THEN SubSeq(s, 2, Len(s)) ELSE s
Canonical(s) ==
    IF StripLeading(DecimalBody(s), "0") = <<>> THEN <<"0">>
    ELSE StripLeading(DecimalBody(s), "0")

U32MaxDigits == <<"4","2","9","4","9","6","7","2","9","5">>

RECURSIVE DecimalLeq(_, _)
DecimalLeq(a, b) ==
    IF a = <<>> THEN TRUE
    ELSE LET da == CHOOSE i \in 1..10 : Digits[i] = a[1]
             db == CHOOSE i \in 1..10 : Digits[i] = b[1]
         IN  IF da # db THEN da < db
             ELSE DecimalLeq(SubSeq(a, 2, Len(a)), SubSeq(b, 2, Len(b)))

\* a string that is an unsigned integer of 32 bits
NumericU32(s) ==
    /\ Unsigned(s)
    /\ \/ Len(Canonical(s)) < Len(U32MaxDigits)
       \/ Len(Canonical(s)) = Len(U32MaxDigits) /\ DecimalLeq(Canonical(s), U32MaxDigits)

\* the four malformed shapes of a composite identifier
Malformed(s) ==
    /\ ~NumericU32(s)
    /\ \/ ~HasDash(s)
       \/ HasDash(s) /\ ~Unsigned(AfterDash(s))
       \/ HasDash(s) /\ ~IsShifted(BeforeDash(s))
       \/ HasDash(s) /\ IsShifted(BeforeDash(s)) /\ ~FitsHex(BeforeDash(s))

\* a composite identifier of shifted hex digits that fit 32 bits and a suffix
WellFormed(s) ==
    /\ HasDash(s)
    /\ BeforeDash(s) # <<>>
    /\ IsShifted(BeforeDash(s))
    /\ FitsHex(BeforeDash(s))
    /\ Unsigned(AfterDash(s))
    /\ Len(AfterDash(s)) < Len(UsizeMax)

\* C4: decode_cell_id fails, and yields no integer, on every malformed
\* identifier: no dash in a non-numeric string, a part after the first dash that
\* is no unsigned integer, a character outside a..p before the dash, or a hex
\* value that does not fit 32 bits.
C4_MalformedFails ==
    (pc = "decoded" /\ Malformed(cell_id)) => decoded.kind = "panic"

\* C5: decode_cell_id returns a numeric string's integer unchanged, and for
\* shifted hex digits a..p with an unsigned suffix the base-16 value of the
\* nibbles in their order, whatever the suffix.
C5_DecodesWellFormed ==
    pc = "decoded" =>
        /\ NumericU32(cell_id) =>
              /\ decoded.kind = "value"
              /\ ToDecimal(decoded.value) = Canonical(cell_id)
        /\ WellFormed(cell_id) =>
              /\ decoded.kind = "value"
              /\ decoded.value = HexValue(BeforeDash(cell_id))

C5_Witness ==
    /\ pc = "decoded"
    /\ cell_id = <<"f","f","k","p","b","a","b","a","-","1">>
    /\ decoded = Value(U32(21935, 4112))
    /\ 21935 * Half + 4112 = 1437536272

(***************************************************************************)
(* Properties of the filter (SpecFilter).                                  *)
(***************************************************************************)

\* C6: filter_transcripts removes exactly the rows whose feature_name starts
\* with a reserved prefix; the rows kept stay in order with their other
\* columns, and none of them starts with a reserved prefix.
C6_FilterKeepsExactlyGenes ==
    pc = "filtered" =>
        /\ df = KeptRows(transcripts)
        /\ \A i \in 1..Len(df) : ~IsControl(df[i].feature_name)

C6_Witness ==
    /\ pc = "filtered"
    /\ Len(transcripts) = 3
    /\ Len(df) = 2
    /\ df[1] # df[2]
    /\ IsControl(transcripts[2].feature_name)

====
